---- MODULE Spec2Model ----
(***************************************************************************)
(* SkyCast weather client (src/src/App.jsx, the App component at lines      *)
(* 476-735) and its same-origin relay (src/api/weather.js).                 *)
(*                                                                          *)
(* A string the code transforms (a query, a credential, a location name,    *)
(* the serialized recency list) is a sequence of fragments, so that trim,   *)
(* toLowerCase, JSON.stringify and JSON.parse are computed on it.  Every    *)
(* whitespace character is a fragment of its own; text that is lowercased   *)
(* or parsed is split into characters.  A template literal is the           *)
(* concatenation of its fragments.                                          *)
(***************************************************************************)
EXTENDS Integers, Sequences, FiniteSets, TLC

\* ------------------------------------------------------------------ bounds
\* Spec: number of fetchWeather invocations (in flight or waiting in a
\* retry timer) that may exist at the same time, and number of caller inputs
\* (queries, toggles, saves) explored in one run; timers and upstream
\* answers are not counted.
MaxTasks == 2
MaxInputs == 3
\* SpecSeq: the same, for runs with one invocation at a time.
SeqTasks == 1
SeqInputs == 4
\* The retry generation of an invocation saturates at this value.
MaxGen == 1
\* SpecNorm: one invocation at a time, searches typed in one run.
NormTasks == 1
NormInputs == 2
\* SpecDiscard: one invocation at a time, up to and after the unmounting.
DiscardTasks == 1
DiscardInputs == 3

\* ------------------------------------------------------- program constants
MAX_RECENT == 5
TierCodes == {601, 602, 603, 604}

DEFAULT_API_KEY == << "34492e3cb3c0a2e5f567c98c1f89551f" >>

\* ----------------------------------------------------------- String.trim
IsSpace(c) == c \in {" ", "\t", "\n"}

RECURSIVE TrimStart(_)
TrimStart(s) ==
    IF s = <<>> THEN <<>>
    ELSE IF IsSpace(Head(s)) THEN TrimStart(Tail(s)) ELSE s

RECURSIVE TrimEnd(_)
TrimEnd(s) ==
    IF s = <<>> THEN <<>>
    ELSE IF IsSpace(s[Len(s)]) THEN TrimEnd(SubSeq(s, 1, Len(s) - 1)) ELSE s

Trim(s) == TrimEnd(TrimStart(s))

\* --------------------------------------------------- String.toLowerCase
Upper == << "A","B","C","D","E","F","G","H","I","J","K","L","M",
            "N","O","P","Q","R","S","T","U","V","W","X","Y","Z" >>
Lower == << "a","b","c","d","e","f","g","h","i","j","k","l","m",
            "n","o","p","q","r","s","t","u","v","w","x","y","z" >>

ToLowerChar(c) ==
    IF \E i \in 1..Len(Upper) : Upper[i] = c
    THEN Lower[CHOOSE i \in 1..Len(Upper) : Upper[i] = c]
    ELSE c

\* a variant that leaves the letters as typed
ToLowerCase_Identity(s) == s

ToLowerCase(s) == [i \in 1..Len(s) |-> ToLowerChar(s[i])]

\* ------------------------------------------------------ query normalizer
Banglore  == << "b","a","n","g","l","o","r","e" >>
Bangalore == << "b","a","n","g","a","l","o","r","e" >>

\* a variant without the alias correction
SearchCity_NoAlias(query) == ToLowerCase(Trim(query))

\* let searchCity = query.trim().toLowerCase();
\* if (searchCity === 'banglore') searchCity = 'bangalore';
SearchCity(query) ==
    LET s == ToLowerCase(Trim(query))
    IN  IF s = Banglore THEN Bangalore ELSE s

\* ------------------------------------- JSON.stringify / JSON.parse (array
\* of plain strings: the names carry no quote, backslash or control char)
RECURSIVE StringifyItems(_)
StringifyItems(list) ==
    IF list = <<>> THEN <<>>
    ELSE <<"\"">> \o Head(list) \o <<"\"">> \o
         (IF Len(list) > 1 THEN <<",">> ELSE <<>>) \o StringifyItems(Tail(list))

\* a variant that leaves out the first item
JSONStringify_DropsFirst(list) == <<"[">> \o StringifyItems(Tail(list)) \o <<"]">>

JSONStringify(list) == <<"[">> \o StringifyItems(list) \o <<"]">>

\* text: what is left to read; inStr: inside a string literal; cur: the
\* literal read so far; acc: the items read so far
RECURSIVE ParseItems(_, _, _, _)
ParseItems(text, inStr, cur, acc) ==
    IF text = <<>> THEN acc
    ELSE LET c == Head(text) IN
         IF inStr
         THEN IF c = "\"" THEN ParseItems(Tail(text), FALSE, <<>>, Append(acc, cur))
                          ELSE ParseItems(Tail(text), TRUE, Append(cur, c), acc)
         ELSE IF c = "\"" THEN ParseItems(Tail(text), TRUE, <<>>, acc)
                          ELSE ParseItems(Tail(text), FALSE, cur, acc)

JSONParse(text) == ParseItems(text, FALSE, <<>>, <<>>)

\* ------------------------------------------------------------ JS objects
\* An object is a function from its property names; a missing property is
\* a name outside the domain.
Has(obj, k) == k \in DOMAIN obj

\* { ...f, ...g }
Spread(f, g) ==
    [k \in DOMAIN f \cup DOMAIN g |-> IF k \in DOMAIN g THEN g[k] ELSE f[k]]

EmptyObject == [k \in {} |-> 0]

\* ------------------------------------------------------ transport selector
\* The state a fetchWeather callback closes over: the useCallback
\* dependencies [apiKey, useHistorical, historicalDate, recentSearches].
Closure(key, useHist, date, recent) ==
    [apiKey |-> key, useHistorical |-> useHist,
     historicalDate |-> date, recentSearches |-> recent]

\* useHistorical && historicalDate
IsHistorical(cl) == cl.useHistorical /\ cl.historicalDate # ""

\* const endpoint = useHistorical && historicalDate ? 'historical' : 'current';
Endpoint(cl) == IF IsHistorical(cl) THEN "historical" ELSE "current"

\* a variant that never uses the relay
RequestUrl_AlwaysDirect(proto, endpoint) ==
    <<"http://api.weatherstack.com/", endpoint>>

\* window.location.protocol === 'https:' ? `/api/weather`
\*                                        : `http://api.weatherstack.com/${endpoint}`
RequestUrl(proto, endpoint) ==
    IF proto = "https:" THEN <<"/api/weather">>
    ELSE <<"http://api.weatherstack.com/", endpoint>>

\* the params object handed to axios.get
RequestParams(proto, cl, searchCity) ==
    Spread(Spread([access_key |-> Trim(cl.apiKey), query |-> searchCity],
                  IF proto = "https:" THEN [endpoint |-> Endpoint(cl)]
                                      ELSE EmptyObject),
           IF IsHistorical(cl)
           THEN [historical_date |-> cl.historicalDate, hourly |-> 1, interval |-> 3]
           ELSE EmptyObject)

BuildRequest(proto, cl, searchCity) ==
    [url |-> RequestUrl(proto, Endpoint(cl)),
     params |-> RequestParams(proto, cl, searchCity)]

\* ------------------------------------------------------------------ axios
StatusText == [s \in {200, 400, 401, 500} |->
    CASE s = 200 -> "200" [] s = 400 -> "400" [] s = 401 -> "401" [] s = 500 -> "500"]

\* What axios.get yields for a server answer: a response for a 2xx status,
\* a thrown error carrying the response for any other status, a thrown
\* ERR_NETWORK error without response when nothing answered.
AxiosGet(answer) ==
    IF answer.kind = "unreachable"
    THEN [ok |-> FALSE, code |-> "ERR_NETWORK", hasResponse |-> FALSE,
          message |-> <<"Network Error">>]
    ELSE IF answer.status >= 200 /\ answer.status < 300
    THEN [ok |-> TRUE, status |-> answer.status, data |-> answer.data]
    ELSE [ok |-> FALSE,
          code |-> IF answer.status < 500 THEN "ERR_BAD_REQUEST" ELSE "ERR_BAD_RESPONSE",
          hasResponse |-> TRUE, status |-> answer.status, data |-> answer.data,
          message |-> <<"Request failed with status code ", StatusText[answer.status]>>]

\* ------------------------------------------------------------------ relay
\* const { endpoint = 'current', access_key, query, ...params } = req.query;
RelayEndpoint(q) == IF Has(q, "endpoint") THEN q.endpoint ELSE "current"

\* a variant that validates the credential only
RelayRejects_KeyOnly(q) == ~Has(q, "access_key") \/ q.access_key = <<>>

\* !access_key || !query
RelayRejects(q) ==
    \/ ~Has(q, "access_key") \/ q.access_key = <<>>
    \/ ~Has(q, "query") \/ q.query = <<>>

\* a variant that forwards the mode selector too
RelayUpstreamRequest_KeepsEndpoint(q) ==
    [url |-> <<"http://api.weatherstack.com/", RelayEndpoint(q)>>, params |-> q]

\* the request the relay sends to the upstream service
RelayUpstreamRequest(q) ==
    [url |-> <<"http://api.weatherstack.com/", RelayEndpoint(q)>>,
     params |-> [k \in DOMAIN q \ {"endpoint"} |-> q[k]]]

\* a variant whose failure body leaves the description out
RelayHandler_NoDescription(q, upstream) ==
    IF RelayRejects(q)
    THEN [kind |-> "http", status |-> 400,
          data |-> [success |-> FALSE,
                    error |-> [info |-> <<"Missing access_key or query parameters.">>]]]
    ELSE LET response == AxiosGet(upstream) IN
         IF response.ok
         THEN [kind |-> "http", status |-> 200, data |-> response.data]
         ELSE [kind |-> "http", status |-> 500,
               data |-> [success |-> FALSE, error |-> [info |-> <<"Proxy Error">>]]]

\* module.exports = async (req, res) => ...: the relay's answer to the
\* client, given what the upstream answers to the forwarded request
RelayHandler(q, upstream) ==
    IF RelayRejects(q)
    THEN [kind |-> "http", status |-> 400,
          data |-> [success |-> FALSE,
                    error |-> [info |-> <<"Missing access_key or query parameters.">>]]]
    ELSE LET response == AxiosGet(upstream) IN
         IF response.ok
         THEN [kind |-> "http", status |-> 200, data |-> response.data]
         ELSE [kind |-> "http", status |-> 500,
               data |-> [success |-> FALSE,
                         error |-> [info |-> <<"Proxy Error: ">> \o response.message]]]

\* the query strings the handler may be called with: each of access_key
\* and query absent, empty or given; endpoint absent, one of the two the
\* page sends, or another word; with and
\* without the historical parameters
RelayQueries ==
    { Spread(Spread(Spread(k, c), e), h) :
        k \in { EmptyObject, [access_key |-> <<>>], [access_key |-> <<"k1">>] },
        c \in { EmptyObject, [query |-> <<>>], [query |-> <<"r","o","m","e">>] },
        e \in { EmptyObject, [endpoint |-> "current"], [endpoint |-> "historical"],
                [endpoint |-> "forecast"] },
        h \in { EmptyObject,
                [historical_date |-> "2024-01-15", hourly |-> 1, interval |-> 3] } }

\* What answers the client's request: the upstream itself on the DIRECT
\* route; on the RELAYED route the relay, or nothing when it is not deployed.
ServerAnswer(proto, req, upstream, relayUp) ==
    IF proto = "https:"
    THEN IF relayUp THEN RelayHandler(req.params, upstream)
                    ELSE [kind |-> "unreachable"]
    ELSE upstream

\* ---------------------------------------------------- response classifier
NoError == <<>>

PremiumRecovery ==
    <<"PREMIUM_RECOVERY: Historical logs unavailable on basic tier. Syncing live feed...">>
AccessDenied == <<"ACCESS_DENIED: Invalid authentication key.">>
ProxyUnavailable ==
    <<"PROXY_UNAVAILABLE: The Vercel API proxy failed to initialize. Verify your deployment build.">>
ProtocolError ==
    <<"PROTOCOL_ERROR: WeatherStack requires HTTP entry. Use the Vercel branch for HTTPS access.">>
LocationFailed == <<"Location protocol failed. Manual entry required.">>

\* the TypeError thrown by reading a property of a missing object
TypeErrorOf(prop) ==
    [ok |-> FALSE, code |-> "", hasResponse |-> FALSE,
     message |-> <<"Cannot read properties of undefined (reading '", prop, "')">>]

\* response.data.error.info || response.data.error.type || 'City not found or API error.'
ErrorMsg(err) ==
    IF Has(err, "info") /\ err.info # <<>> THEN err.info
    ELSE IF Has(err, "type") /\ err.type # <<>> THEN err.type
    ELSE <<"City not found or API error.">>

\* a variant that takes every code for a tier restriction
IsTierCode_AnyCode(err) == Has(err, "code")

\* a variant that leaves 604 out
IsTierCode_Without604(err) == Has(err, "code") /\ err.code \in {601, 602, 603}

\* errorCode === 601 || errorCode === 602 || errorCode === 603 || errorCode === 604
IsTierCode(err) == Has(err, "code") /\ err.code \in TierCodes

\* a variant with one message for every unanswered request
CatchError_OneMessage(proto, err) ==
    IF err.hasResponse /\ err.status = 401 THEN AccessDenied
    ELSE IF err.code = "ERR_NETWORK" THEN ProtocolError
    ELSE <<"INTERFACE_ERROR: ">> \o err.message

\* the catch block of fetchWeather
CatchError(proto, err) ==
    IF err.hasResponse /\ err.status = 401 THEN AccessDenied
    ELSE IF err.code = "ERR_NETWORK"
    THEN IF proto = "https:" THEN ProxyUnavailable ELSE ProtocolError
    ELSE <<"INTERFACE_ERROR: ">> \o err.message

\* a variant that takes a body without location for a tier error
Classify_RetriesMalformed(proto, result) ==
    IF ~result.ok
    THEN [kind |-> "terminal", error |-> CatchError(proto, result)]
    ELSE LET data == result.data IN
         IF Has(data, "success") /\ data.success = FALSE
         THEN IF ~Has(data, "error")
              THEN [kind |-> "terminal", error |-> CatchError(proto, TypeErrorOf("info"))]
              ELSE IF IsTierCode(data.error)
              THEN [kind |-> "recoverable", error |-> PremiumRecovery]
              ELSE [kind |-> "terminal",
                    error |-> <<"STATION_RESPONSE: ">> \o ErrorMsg(data.error)]
         ELSE IF ~Has(data, "location")
              THEN [kind |-> "recoverable", error |-> PremiumRecovery]
              ELSE [kind |-> "success", data |-> data]

\* The branch fetchWeather takes on the result of axios.get.
Classify(proto, result) ==
    IF ~result.ok
    THEN [kind |-> "terminal", error |-> CatchError(proto, result)]
    ELSE LET data == result.data IN
         IF Has(data, "success") /\ data.success = FALSE
         THEN IF ~Has(data, "error")
              THEN [kind |-> "terminal", error |-> CatchError(proto, TypeErrorOf("info"))]
              ELSE IF IsTierCode(data.error)
              THEN [kind |-> "recoverable", error |-> PremiumRecovery]
              ELSE [kind |-> "terminal",
                    error |-> <<"STATION_RESPONSE: ">> \o ErrorMsg(data.error)]
         ELSE IF ~Has(data, "location")
              THEN [kind |-> "terminal", error |-> CatchError(proto, TypeErrorOf("name"))]
              ELSE [kind |-> "success", data |-> data]

\* ----------------------------------------------------------- recency cache
RECURSIVE Without(_, _)
Without(list, name) ==
    IF list = <<>> THEN <<>>
    ELSE IF Head(list) = name THEN Without(Tail(list), name)
    ELSE <<Head(list)>> \o Without(Tail(list), name)

Slice(list, n) == SubSeq(list, 1, IF Len(list) < n THEN Len(list) ELSE n)

\* a variant that does not cut the list
NewRecent_NoSlice(name, recent) == <<name>> \o Without(recent, name)

\* a variant that puts the name last
NewRecent_Appends(name, recent) == Slice(Without(recent, name) \o <<name>>, MAX_RECENT)

\* [name, ...recentSearches.filter(c => c !== name)].slice(0, 5)
NewRecent(name, recent) == Slice(<<name>> \o Without(recent, name), MAX_RECENT)

\* ------------------------------------------------------------ localStorage
KeyItem == "skycast_api_key"
RecentItem == "skycast_recent"

\* localStorage.getItem(k) || fallback
GetItemOr(store, k, fallback) ==
    IF Has(store, k) /\ store[k] # <<>> THEN store[k] ELSE fallback

\* a variant that writes every value under the cache's key
SetItem_WrongKey(store, k, v) == Spread(store, [x \in {RecentItem} |-> v])

\* localStorage.setItem(k, v)
SetItem(store, k, v) == Spread(store, [x \in {k} |-> v])

\* ------------------------------------------------------------------ inputs
Rome == << "R","o","m","e" >>
Oslo == << "O","s","l","o" >>
Pune == << "P","u","n","e" >>
Lima == << "L","i","m","a" >>
Bonn == << "B","o","n","n" >>
Nice == << "N","i","c","e" >>

\* what the caller types into the search box
RawQueries ==
    { <<>>, << " " >>,
      << " ","B","a","n","g","l","o","r","e" >> }

\* spellings of the same names in other letter case and with other
\* surrounding whitespace, a name with a space inside, blank inputs
NormQueries ==
    { <<>>, << " " >>, << "\t", " " >>,
      << "r","o","m","e" >>, << "R","O","M","E" >>, << " ","R","o","m","e"," " >>,
      << "\t","r","O","m","E","\n" >>,
      << "b","a","n","g","l","o","r","e" >>, << " ","B","A","N","G","L","O","R","E" >>,
      << "B","a","n","g","l","o","r","e"," "," " >>,
      << "B","a","n","g","a","l","o","r","e" >>,
      << "N","e","w"," ","Y","o","r","k" >>, << " ","n","e","w"," ","y","o","r","k" >>,
      << "n","E","W"," ","y","O","R","K","\n" >>,
      << "N","e","w","Y","o","r","k" >> }

\* everything that may be in the search box
TypedQueries == RawQueries \cup NormQueries

\* credentials the caller saves in the settings dialog: a key typed with
\* spaces around it, and a field left blank
SavedKeys == { << " ", "k2", " " >>, << " " >> }

\* values of the date input
Dates == { "", "2024-01-15" }

\* coordinate pairs of the geolocation provider, as JS prints the numbers
Coordinates == { [latitude |-> <<"1","2",".","9">>, longitude |-> <<"7","7",".","5">>] }

\* what the key/value store holds when the page loads
InitialStores ==
    { EmptyObject,
      [skycast_api_key |-> << "k1" >>,
       skycast_recent |-> JSONStringify(<< Pune, Rome, Lima, Bonn, Nice >>)] }

\* location names the upstream resolves queries to
UpstreamNames == { Rome, Oslo }

UpstreamCodes == { 600, 601, 602, 603, 604, 605 }

SuccessBody(name) == [location |-> [name |-> name]]

ErrorBodies ==
    { [success |-> FALSE, error |-> [code |-> c, type |-> <<"error_type">>, info |-> <<"error info">>]]
        : c \in UpstreamCodes }
    \cup { [success |-> FALSE, error |-> [code |-> 615, type |-> <<"request_failed">>]],
           [success |-> FALSE, error |-> [code |-> 615]],
           [success |-> FALSE, error |-> [type |-> <<"error_type">>]],
           [success |-> FALSE] }

\* everything the upstream service may do with a request
UpstreamAnswers ==
    { [kind |-> "http", status |-> 200, data |-> SuccessBody(n)] : n \in UpstreamNames }
    \cup { [kind |-> "http", status |-> 200, data |-> b] : b \in ErrorBodies }
    \cup { [kind |-> "http", status |-> 200, data |-> [request |-> "none"]],
           [kind |-> "http", status |-> 401,
            data |-> [success |-> FALSE, error |-> [code |-> 101, info |-> <<"invalid access key">>]]],
           [kind |-> "http", status |-> 500, data |-> [request |-> "none"]],
           [kind |-> "unreachable"] }

\* the answers explored together with overlapping invocations: both
\* resolved names, a tier-restricted and another failure code, an
\* authentication failure, no answer
CoreAnswers ==
    { up \in UpstreamAnswers :
        \/ up.kind = "unreachable"
        \/ up.status = 401
        \/ up.status = 200 /\ Has(up.data, "location")
        \/ /\ up.status = 200 /\ Has(up.data, "error")
           /\ Has(up.data.error, "code") /\ Has(up.data.error, "info")
           /\ up.data.error.code \in {602, 603, 605} }

\* ------------------------------------------------------------------- state
VARIABLES
    protocol,        \* window.location.protocol
    localStorage,    \* the durable key/value store
    weatherData,     \* <<>> (null) or <<the report>>
    loading,
    error,           \* NoError (null) or the message
    apiKey,
    autoRefresh,
    historicalDate,
    useHistorical,
    recentSearches,
    tasks,           \* fetchWeather invocations awaiting axios.get, and
                     \* retry timers set by setTimeout
    intervals,       \* the active setInterval timers
    inputs,          \* number of caller inputs still to explore
    relay,           \* the request the relay handler was called with, the
                     \* upstream calls it made and its response
    mounted,         \* FALSE once the App component has been unmounted
    geolocation      \* whether navigator.geolocation exists

vars == << protocol, localStorage, weatherData, loading, error, apiKey,
           autoRefresh, historicalDate, useHistorical, recentSearches,
           tasks, intervals, inputs, relay, mounted, geolocation >>

Slots == DOMAIN tasks

NoTask == [phase |-> "none"]

\* the values the fetchWeather of the current render closes over
CurrentClosure == Closure(apiKey, useHistorical, historicalDate, recentSearches)

\* the dependencies of the auto-refresh effect
Deps == [autoRefresh |-> autoRefresh, weatherData |-> weatherData,
         fetchWeather |-> CurrentClosure]

\* the state after the first render, with room for n invocations and k
\* caller inputs
Mounted(n, k) ==
    /\ protocol \in {"http:", "https:"}
    /\ localStorage \in InitialStores
    /\ weatherData = <<>>
    /\ loading = FALSE
    /\ error = NoError
    /\ apiKey = GetItemOr(localStorage, KeyItem, DEFAULT_API_KEY)
    /\ autoRefresh = FALSE
    /\ historicalDate = ""
    /\ useHistorical = FALSE
    /\ recentSearches = JSONParse(GetItemOr(localStorage, RecentItem, <<"[","]">>))
    /\ tasks = [t \in 1..n |-> NoTask]
    /\ intervals = <<>>
    /\ inputs = k
    /\ mounted = TRUE

\* the relay handler has not been called
RelayIdle ==
    [called |-> FALSE, req |-> EmptyObject, calls |-> <<>>, upstream |-> <<>>,
     res |-> <<>>]

\* a browser with a geolocation provider
Browser == geolocation = TRUE

\* any browser
AnyBrowser == geolocation \in BOOLEAN

Init == Mounted(MaxTasks, MaxInputs) /\ relay = RelayIdle /\ Browser

InitSeq == Mounted(SeqTasks, SeqInputs) /\ relay = RelayIdle /\ Browser

InitNorm == Mounted(NormTasks, NormInputs) /\ relay = RelayIdle /\ Browser

\* the relay handler is called with some req.query, by whatever client
InitRelay ==
    /\ Mounted(SeqTasks, 0) /\ Browser
    /\ relay \in { [RelayIdle EXCEPT !.called = TRUE, !.req = q] : q \in RelayQueries }

\* ------------------------------------------------------ refresh scheduler
\* a variant in which clearInterval clears nothing
RemoveOne_Keeps(list, x) == list

RECURSIVE RemoveOne(_, _)
RemoveOne(list, x) ==
    IF list = <<>> THEN <<>>
    ELSE IF Head(list) = x THEN Tail(list)
    ELSE <<Head(list)>> \o RemoveOne(Tail(list), x)

\* the timer an effect run creates: setInterval(() =>
\* fetchWeather(weatherData.location.name), 300000)
TimerOf(deps) ==
    [query |-> deps.weatherData[1].location.name, fetchWeather |-> deps.fetchWeather]

HasTimer(deps) == deps.autoRefresh /\ deps.weatherData # <<>>

\* a variant of an effect that does not depend on fetchWeather
AfterRender_NoCallbackDep(timers, old, new) ==
    IF old.autoRefresh = new.autoRefresh /\ old.weatherData = new.weatherData
    THEN timers
    ELSE IF HasTimer(new) THEN << TimerOf(new) >> ELSE <<>>

\* a variant in which the effect has no cleanup
AfterRender_NoCleanup(timers, old, new) ==
    IF old = new THEN timers
    ELSE IF HasTimer(new) THEN Append(timers, TimerOf(new)) ELSE timers

\* useEffect(..., [autoRefresh, weatherData, fetchWeather]): when a
\* dependency changed, the cleanup of the previous run clears the timer that
\* run created, and the new run creates one if enabled and a report is held.
AfterRender(timers, old, new) ==
    IF old = new THEN timers
    ELSE LET cleared == IF HasTimer(old) THEN RemoveOne(timers, TimerOf(old)) ELSE timers
         IN  IF HasTimer(new) THEN Append(cleared, TimerOf(new)) ELSE cleared

Render == intervals' = AfterRender(intervals, Deps, Deps')

\* a state setter of useState: the update of an unmounted component is
\* dropped
SetState(held, next) == IF mounted THEN next ELSE held

\* the component is unmounted: the cleanup of the last run of the effect
\* clears the timer that run created; timers set by setTimeout and requests
\* awaiting axios.get have no cleanup
Unmount ==
    /\ mounted
    /\ mounted' = FALSE
    /\ intervals' = IF HasTimer(Deps) THEN RemoveOne(intervals, TimerOf(Deps))
                    ELSE intervals
    /\ UNCHANGED << geolocation, relay, protocol, localStorage, weatherData,
                    loading, error, apiKey, autoRefresh, historicalDate,
                    useHistorical, recentSearches, tasks, inputs >>

\* ------------------------------------------------------------ fetchWeather
FreeSlot == CHOOSE t \in Slots : tasks[t].phase = "none" /\ \A u \in Slots : tasks[u].phase = "none" => t <= u

HasFreeSlot == \E t \in Slots : tasks[t].phase = "none"

NextGen(gen) == IF gen < MaxGen THEN gen + 1 ELSE MaxGen

\* History kept with each invocation for the statements below: alone is
\* TRUE while no other invocation has been in flight or pending at any time
\* since the originating call.  A call that finds others marks them too.
Others(t) == { u \in Slots \ {t} : tasks[u].phase # "none" }

Overlapped(t, ts) ==
    [u \in Slots |-> IF u # t /\ ts[u].phase # "none"
                     THEN [ts[u] EXCEPT !.alone = FALSE] ELSE ts[u]]

\* fetchWeather(query) of the render that closed over cl, up to its await
Begin(t, cl, query, origin, gen, alone) ==
    IF query = <<>>
    THEN /\ tasks' = [tasks EXCEPT ![t] = NoTask]
         /\ UNCHANGED << loading, error >>
    ELSE /\ loading' = SetState(loading, TRUE)
         /\ error' = SetState(error, NoError)
         /\ tasks' = Overlapped(t, [tasks EXCEPT ![t] =
                [phase |-> "inflight", origin |-> origin, gen |-> gen,
                 fetchWeather |-> cl, searchCity |-> SearchCity(query),
                 request |-> BuildRequest(protocol, cl, SearchCity(query)),
                 alone |-> alone]])

\* one more caller input, within the explored number; an unmounted
\* component has no controls
CallerInput == mounted /\ inputs > 0 /\ inputs' = inputs - 1

\* a caller-originated fetchWeather(query)
Invoke(query) ==
    /\ CallerInput
    /\ HasFreeSlot
    /\ Begin(FreeSlot, CurrentClosure, query, "caller", 0, Others(FreeSlot) = {})
    /\ UNCHANGED << geolocation, mounted, relay, protocol, localStorage, weatherData, apiKey, autoRefresh,
                    historicalDate, useHistorical, recentSearches >>
    /\ Render

\* Enter in the search box, or the Sync button
Submit(q) ==
    /\ q \in TypedQueries
    /\ Invoke(q)

\* onRefresh={() => fetchWeather(weatherData.location.name)}
ManualRefresh ==
    /\ weatherData # <<>>
    /\ Invoke(weatherData[1].location.name)

\* getUserLocation, the provider resolving the position
GeoLocated(pos) ==
    /\ geolocation
    /\ pos \in Coordinates
    /\ Invoke(pos.latitude \o <<",">> \o pos.longitude)

\* getUserLocation, the provider refusing
GeoDenied ==
    /\ geolocation
    /\ CallerInput
    /\ error' = LocationFailed
    /\ UNCHANGED << geolocation, mounted, relay, protocol, localStorage, weatherData, loading, apiKey, autoRefresh,
                    historicalDate, useHistorical, recentSearches, tasks >>
    /\ Render

\* getUserLocation where navigator.geolocation is missing: the if has no
\* else
GeoUnavailable ==
    /\ ~geolocation
    /\ CallerInput
    /\ UNCHANGED << geolocation, mounted, relay, protocol, localStorage, weatherData,
                    loading, error, apiKey, autoRefresh, historicalDate,
                    useHistorical, recentSearches, tasks >>
    /\ Render

\* the setInterval callback of the auto-refresh effect
RefreshTick(i) ==
    /\ i \in 1..Len(intervals)
    /\ HasFreeSlot
    /\ Begin(FreeSlot, intervals[i].fetchWeather, intervals[i].query, "refresh", 0,
             Others(FreeSlot) = {})
    /\ UNCHANGED << geolocation, mounted, relay, protocol, localStorage, weatherData, apiKey, autoRefresh,
                    historicalDate, useHistorical, recentSearches, inputs >>
    /\ Render

\* the setTimeout callback: () => fetchWeather(searchCity), the fetchWeather
\* of the render the failed invocation was created in
RetryFire(t) ==
    /\ tasks[t].phase = "retry"
    /\ Begin(t, tasks[t].fetchWeather, tasks[t].searchCity, tasks[t].origin,
             NextGen(tasks[t].gen), tasks[t].alone)
    /\ UNCHANGED << geolocation, mounted, relay, protocol, localStorage, weatherData, apiKey, autoRefresh,
                    historicalDate, useHistorical, recentSearches, inputs >>
    /\ Render

\* a variant in which a failure leaves the held report in place
ReportAfterFailure_Keeps(held) == held

\* setWeatherData(null) at the end of the failure branch and of catch
ReportAfterFailure(held) == <<>>

\* fetchWeather from the resolution of its await to the end of finally
Settle(t, upstream, relayUp) ==
    /\ tasks[t].phase = "inflight"
    /\ LET task == tasks[t]
           answer == ServerAnswer(protocol, task.request, upstream, relayUp)
           out == Classify(protocol, AxiosGet(answer))
       IN  CASE out.kind = "recoverable" ->
                  /\ error' = SetState(error, out.error)
                  /\ useHistorical' = SetState(useHistorical, FALSE)
                  /\ tasks' = [tasks EXCEPT ![t] =
                        [phase |-> "retry", origin |-> task.origin, gen |-> task.gen,
                         fetchWeather |-> task.fetchWeather,
                         searchCity |-> task.searchCity, alone |-> task.alone]]
                  /\ weatherData' = SetState(weatherData, ReportAfterFailure(weatherData))
                  /\ UNCHANGED << recentSearches, localStorage >>
             [] out.kind = "terminal" ->
                  /\ error' = SetState(error, out.error)
                  /\ weatherData' = SetState(weatherData, ReportAfterFailure(weatherData))
                  /\ tasks' = [tasks EXCEPT ![t] = NoTask]
                  /\ UNCHANGED << useHistorical, recentSearches, localStorage >>
             [] out.kind = "success" ->
                  LET newRecent == NewRecent(out.data.location.name,
                                             task.fetchWeather.recentSearches)
                  IN  /\ weatherData' = SetState(weatherData, << out.data >>)
                      /\ recentSearches' = SetState(recentSearches, newRecent)
                      /\ localStorage' = SetItem(localStorage, RecentItem,
                                                 JSONStringify(newRecent))
                      /\ tasks' = [tasks EXCEPT ![t] = NoTask]
                      /\ UNCHANGED << error, useHistorical >>
    /\ loading' = SetState(loading, FALSE)
    /\ UNCHANGED << geolocation, mounted, relay, protocol, apiKey, autoRefresh, historicalDate, inputs >>
    /\ Render

\* the upstream answers, to the client or to the relay
Answered(t, upstream) ==
    /\ upstream \in UpstreamAnswers
    /\ Settle(t, upstream, TRUE)

\* the client's request to the relay reaches nothing
RelayDown(t) ==
    /\ protocol = "https:"
    /\ Settle(t, [kind |-> "unreachable"], FALSE)

\* ----------------------------------------------------------- other inputs
\* onClick={() => setUseHistorical(!useHistorical)}
ToggleHistorical ==
    /\ CallerInput
    /\ useHistorical' = ~useHistorical
    /\ UNCHANGED << geolocation, mounted, relay, protocol, localStorage, weatherData, loading, error, apiKey,
                    autoRefresh, historicalDate, recentSearches, tasks >>
    /\ Render

\* onChange={(e) => setHistoricalDate(e.target.value)}, shown while useHistorical
SetHistoricalDate(d) ==
    /\ CallerInput
    /\ useHistorical
    /\ historicalDate' = d
    /\ UNCHANGED << geolocation, mounted, relay, protocol, localStorage, weatherData, loading, error, apiKey,
                    autoRefresh, useHistorical, recentSearches, tasks >>
    /\ Render

\* the dashboard calling setAutoRefresh
SetAutoRefresh(b) ==
    /\ CallerInput
    /\ weatherData # <<>>
    /\ autoRefresh' = b
    /\ UNCHANGED << geolocation, mounted, relay, protocol, localStorage, weatherData, loading, error, apiKey,
                    historicalDate, useHistorical, recentSearches, tasks >>
    /\ Render

\* onSave={(key) => { setApiKey(key); localStorage.setItem('skycast_api_key', key); ... }}
SaveKey(key) ==
    /\ CallerInput
    /\ apiKey' = key
    /\ localStorage' = SetItem(localStorage, KeyItem, key)
    /\ UNCHANGED << geolocation, mounted, relay, protocol, weatherData, loading, error, autoRefresh,
                    historicalDate, useHistorical, recentSearches, tasks >>
    /\ Render

\* module.exports = async (req, res) => ...: one run of the relay handler on
\* the request it was called with; the upstream answers the call it gets
RelayServe(upstream) ==
    /\ relay.called /\ relay.res = <<>>
    /\ upstream \in UpstreamAnswers
    /\ relay' = [relay EXCEPT
                 !.calls = IF RelayRejects(relay.req) THEN <<>>
                           ELSE << RelayUpstreamRequest(relay.req) >>,
                 !.upstream = IF RelayRejects(relay.req) THEN <<>> ELSE << upstream >>,
                 !.res = << RelayHandler(relay.req, upstream) >>]
    /\ UNCHANGED << geolocation, mounted, protocol, localStorage, weatherData, loading, error,
                    apiKey, autoRefresh, historicalDate, useHistorical,
                    recentSearches, tasks, intervals, inputs >>

\* the search box, the mode controls and the dashboard
CallerNext ==
    \/ \E q \in RawQueries : Submit(q)
    \/ ManualRefresh
    \/ ToggleHistorical
    \/ \E d \in Dates : SetHistoricalDate(d)
    \/ \E b \in BOOLEAN : SetAutoRefresh(b)

\* the locate button and the settings dialog
SettingsNext ==
    \/ \E pos \in Coordinates : GeoLocated(pos)
    \/ GeoDenied
    \/ \E k \in SavedKeys : SaveKey(k)

\* what the timers do
TimerNext ==
    \/ \E i \in 1..Len(intervals) : RefreshTick(i)
    \/ \E t \in Slots : RetryFire(t)

\* overlapping invocations, the core answers, the inputs that start an
\* invocation or change what the next one asks for
Next ==
    \/ CallerNext
    \/ TimerNext
    \/ \E t \in Slots, up \in CoreAnswers : Answered(t, up)
    \/ \E t \in Slots : RelayDown(t)

Spec == Init /\ [][Next]_vars

\* one invocation at a time, every answer, every input
NextSeq ==
    \/ CallerNext
    \/ SettingsNext
    \/ TimerNext
    \/ \E t \in Slots, up \in UpstreamAnswers : Answered(t, up)
    \/ \E t \in Slots : RelayDown(t)

SpecSeq == InitSeq /\ [][NextSeq]_vars

\* searches only, in every spelling, and what follows from them
NextNorm ==
    \/ \E q \in NormQueries : Submit(q)
    \/ \E t \in Slots : RetryFire(t)
    \/ \E t \in Slots, up \in CoreAnswers : Answered(t, up)
    \/ \E t \in Slots : RelayDown(t)

SpecNorm == InitNorm /\ [][NextNorm]_vars

\* the component's life up to and after its unmounting
InitDiscard == Mounted(DiscardTasks, DiscardInputs) /\ relay = RelayIdle /\ Browser

NextDiscard ==
    \/ CallerNext
    \/ TimerNext
    \/ \E t \in Slots, up \in CoreAnswers : Answered(t, up)
    \/ \E t \in Slots : RelayDown(t)
    \/ Unmount

SpecDiscard == InitDiscard /\ [][NextDiscard]_vars

\* the locate button in any browser, the settings dialog, and what follows
\* from them
InitLocate == Mounted(SeqTasks, SeqInputs) /\ relay = RelayIdle /\ AnyBrowser

NextLocate ==
    \/ SettingsNext
    \/ GeoUnavailable
    \/ \E t \in Slots : RetryFire(t)
    \/ \E t \in Slots, up \in UpstreamAnswers : Answered(t, up)
    \/ \E t \in Slots : RelayDown(t)

SpecLocate == InitLocate /\ [][NextLocate]_vars

\* the relay handler alone
NextRelay == \E up \in UpstreamAnswers : RelayServe(up)

SpecRelay == InitRelay /\ [][NextRelay]_vars

\* =================================================================== claims
\* Vocabulary of the claims, stated on the upstream's answer and on the
\* request as dispatched, not on the classifier's own verdict.

InFlight(t) == tasks[t].phase = "inflight"
RetryPending(t) == tasks[t].phase = "retry"

\* the upstream operation a dispatched request asks for
RequestedOperation(req) ==
    IF Has(req.params, "endpoint") THEN req.params.endpoint ELSE req.url[Len(req.url)]

CarriesHistoricalParams(req) ==
    \/ Has(req.params, "historical_date")
    \/ Has(req.params, "hourly")
    \/ Has(req.params, "interval")

\* the request of invocation t gets as far as the upstream service
ReachesUpstream(t) ==
    /\ InFlight(t)
    /\ protocol = "http:" \/ ~RelayRejects(tasks[t].request.params)

\* a 2xx answer whose body says success=false
IsFailureBody(up) ==
    /\ up.kind = "http" /\ up.status = 200
    /\ Has(up.data, "success") /\ up.data.success = FALSE

\* ... with an error code of the tier-restricted set
HasTierRestrictedCode(up) ==
    /\ Has(up.data, "error") /\ Has(up.data.error, "code")
    /\ up.data.error.code \in {601, 602, 603, 604}

\* a 2xx answer with a well-formed success payload
IsSuccessAnswer(up) ==
    /\ up.kind = "http" /\ up.status = 200
    /\ ~(Has(up.data, "success") /\ up.data.success = FALSE)
    /\ Has(up.data, "location")

\* the persisted recency list, <<>> while the key is absent
StoredRecent ==
    IF Has(localStorage, RecentItem) THEN JSONParse(localStorage[RecentItem]) ELSE <<>>

\* the persisted text itself, <<>> while the key is absent
StoredRecentText == GetItemOr(localStorage, RecentItem, <<>>)

NoDuplicates(list) == \A i, j \in 1..Len(list) : list[i] = list[j] => i = j

\* n, then the entries of c other than n in their order, cut to five
MovedToFront(n, c) ==
    LET Other(x) == x # n
        all == <<n>> \o SelectSeq(c, Other)
    IN  SubSeq(all, 1, IF Len(all) < 5 THEN Len(all) ELSE 5)

\* C1: an invocation that got a recoverable tier error is retried exactly
\* once: a retry timer is only ever set by an originating call, never by an
\* invocation that is itself an automatic retry.
C1_ExactlyOneRetry ==
    \A t \in Slots : RetryPending(t) => tasks[t].gen = 0

\* C2: the request issued by an automatic retry is in LIVE mode: it asks for
\* the current operation and carries no historical date or hourly parameters.
C2_RetryIsLive ==
    \A t \in Slots :
        (InFlight(t) /\ tasks[t].gen >= 1) =>
            /\ RequestedOperation(tasks[t].request) = "current"
            /\ ~CarriesHistoricalParams(tasks[t].request)

\* C3: a body with success=false is classified as recoverable (interim
\* notice, retry timer set) exactly when its error code is one of 601, 602,
\* 603, 604, in every request mode and on both routes.
C3_TierCodesRecoverable ==
    [][\A t \in Slots, up \in UpstreamAnswers :
          (IsFailureBody(up) /\ ReachesUpstream(t) /\ Answered(t, up)) =>
              (HasTierRestrictedCode(up) <=>
                  (RetryPending(t)' /\ error' = PremiumRecovery))]_vars

C3_Witness ==
    \E t \in Slots :
        /\ RetryPending(t) /\ error = PremiumRecovery
        /\ protocol = "https:" /\ IsHistorical(tasks[t].fetchWeather)

\* C4: after a HISTORICAL request is answered with error code 603 the error
\* is the interim notice, the historical flag is off and a retry is pending
\* for the same normalized query; when the retry delay elapses a second
\* request is issued for that query.
C4_RetryReissuesQuery ==
    [][/\ \A t \in Slots, up \in UpstreamAnswers :
             ( /\ IsFailureBody(up) /\ Has(up.data, "error")
               /\ Has(up.data.error, "code") /\ up.data.error.code = 603
               /\ ReachesUpstream(t)
               /\ RequestedOperation(tasks[t].request) = "historical"
               /\ Answered(t, up) ) =>
                 /\ error' = PremiumRecovery
                 /\ useHistorical' = FALSE
                 /\ RetryPending(t)'
                 /\ tasks'[t].searchCity = tasks[t].searchCity
       /\ \A t \in Slots :
             (RetryFire(t) /\ IsHistorical(tasks[t].fetchWeather)) =>
                 /\ InFlight(t)'
                 /\ tasks'[t].request.params.query = tasks[t].searchCity]_vars

\* C5: a tier error is resolved within one retry cycle: when the retry
\* invocation settles, it leaves no retry pending and the state holds a
\* report or a terminal error.
C5_SettledAfterOneCycle ==
    [][\A t \in Slots, up \in UpstreamAnswers :
          (InFlight(t) /\ tasks[t].gen >= 1 /\ Answered(t, up)) =>
              /\ tasks'[t].phase = "none"
              /\ \/ weatherData' # <<>>
                 \/ error' \notin {NoError, PremiumRecovery}]_vars

\* C6: an invocation whose upstream answer is HTTP 401 ends with the
\* invalid-credential message, no retry timer and an unchanged recency
\* cache, on the DIRECT and on the RELAYED route.
C6_UnauthorizedIsTerminal ==
    [][\A t \in Slots, up \in UpstreamAnswers :
          (up.kind = "http" /\ up.status = 401 /\ ReachesUpstream(t) /\ Answered(t, up)) =>
              /\ error' = AccessDenied
              /\ tasks'[t].phase = "none"
              /\ recentSearches' = recentSearches
              /\ StoredRecent' = StoredRecent]_vars

\* C7: the recency cache, in memory and persisted, changes only in a step
\* in which an invocation settles with a successful upstream answer.
C7_CacheChangedOnlyBySuccess ==
    [][(recentSearches' # recentSearches \/ StoredRecentText' # StoredRecentText) =>
          \E t \in Slots, up \in UpstreamAnswers :
              IsSuccessAnswer(up) /\ ReachesUpstream(t) /\ Answered(t, up)]_vars

C7_Witness ==
    /\ recentSearches # <<>> /\ recentSearches[1] = Oslo
    /\ error = LocationFailed
    /\ Has(localStorage, KeyItem) /\ localStorage[KeyItem] \in SavedKeys

\* C8: the recency cache, in memory and persisted, holds at most five
\* entries and no name twice.
C8_CacheBoundedAndUnique ==
    /\ Len(recentSearches) <= 5 /\ NoDuplicates(recentSearches)
    /\ Len(StoredRecent) <= 5 /\ NoDuplicates(StoredRecent)

C8_Witness ==
    /\ Len(recentSearches) = 5
    /\ recentSearches[1] = Oslo /\ recentSearches[2] = Rome
    /\ StoredRecent = recentSearches

C10_RouteFollowsScheme ==
    \A t \in Slots :
        InFlight(t) =>
            IF protocol = "https:"
            THEN tasks[t].request.url = <<"/api/weather">>
            ELSE /\ Len(tasks[t].request.url) = 2
                 /\ tasks[t].request.url[1] = "http://api.weatherstack.com/"

C10_Witness ==
    /\ protocol = "https:"
    /\ \E t, u \in Slots :
          /\ InFlight(t) /\ tasks[t].gen >= 1
          /\ InFlight(u) /\ tasks[u].origin = "refresh" /\ tasks[u].gen = 0

\* ---------------------------------------------------------------- C11, C12
\* The part of a raw input between its first and its last character that is
\* not whitespace.
Core(q) ==
    LET at == { i \in 1..Len(q) : ~IsSpace(q[i]) }
    IN  IF at = {} THEN <<>>
        ELSE SubSeq(q, CHOOSE i \in at : \A j \in at : i <= j,
                       CHOOSE i \in at : \A j \in at : i >= j)

SameLetter(a, b) ==
    a = b \/ \E i \in 1..Len(Upper) : {a, b} = {Upper[i], Lower[i]}

\* two raw inputs spell the same name, up to letter case and surrounding
\* whitespace
SameCityName(q1, q2) ==
    /\ Core(q1) # <<>>
    /\ Len(Core(q1)) = Len(Core(q2))
    /\ \A i \in 1..Len(Core(q1)) : SameLetter(Core(q1)[i], Core(q2)[i])

\* the query of the request a call made in this step dispatches
Dispatched(t) == tasks'[t].request.params.query

\* C11: the lookup key dispatched for a raw input that spells a name is not
\* empty, is left unchanged by normalizing it again, and is the key of every
\* other spelling of the same name in another letter case or with other
\* surrounding whitespace.
C11_NormalizationIdempotent ==
    [][\A q \in NormQueries :
          (Core(q) # <<>> /\ HasFreeSlot /\ Submit(q)) =>
              /\ tasks'[FreeSlot].phase = "inflight"
              /\ Dispatched(FreeSlot) # <<>>
              /\ SearchCity(Dispatched(FreeSlot)) = Dispatched(FreeSlot)
              /\ \A q2 \in NormQueries :
                    SameCityName(q, q2) => SearchCity(q2) = Dispatched(FreeSlot)]_vars

C11_Witness ==
    \E t \in Slots :
        /\ InFlight(t) /\ inputs = 0
        /\ tasks[t].request.params.query = << "n","e","w"," ","y","o","r","k" >>

\* C12: "banglore" in any letter case and with any surrounding whitespace is
\* dispatched with query "bangalore"; every other input is dispatched as
\* its trimmed lowercase form.
C12_AliasOnlyBanglore ==
    [][\A q \in NormQueries :
          (q # <<>> /\ HasFreeSlot /\ Submit(q)) =>
              /\ tasks'[FreeSlot].phase = "inflight"
              /\ Dispatched(FreeSlot) =
                    IF SameCityName(q, Banglore) THEN Bangalore
                    ELSE ToLowerCase(Core(q))]_vars

C12_Witness ==
    \E t \in Slots :
        /\ InFlight(t) /\ protocol = "http:"
        /\ tasks[t].request.url = << "http://api.weatherstack.com/", "current" >>
        /\ tasks[t].request.params.query = Bangalore
        /\ recentSearches # <<>> /\ recentSearches[1] = Oslo

\* C13: a call with an input whose trimmed form is empty issues no request
\* and leaves the loading flag, the error, the report and the recency cache
\* as they were.
C13_BlankInputRejected ==
    [][\A q \in TypedQueries :
          (Core(q) = <<>> /\ Submit(q)) =>
              UNCHANGED << tasks, loading, error, weatherData, recentSearches,
                           localStorage >>]_vars

\* C14: at most one refresh timer is active, whatever re-renders the
\* effect went through.
C14_AtMostOneTimer == Len(intervals) <= 1

\* the timer survived three caller inputs and its callback has been called
C14_Witness ==
    /\ Len(intervals) = 1 /\ inputs = 0
    /\ \E t \in Slots : InFlight(t) /\ tasks[t].origin = "refresh"

\* C15: a refresh timer is active only while auto-refresh is enabled and a
\* report is held, and the timer's callback runs only then.
C15_TimerOnlyWhileEnabled ==
    [][/\ intervals' # <<>> => (autoRefresh' /\ weatherData' # <<>>)
       /\ \A i \in 1..Len(intervals) :
             RefreshTick(i) => (autoRefresh /\ weatherData # <<>>)]_vars

\* auto-refresh was enabled on a report that a later failure cleared
C15_Witness ==
    /\ autoRefresh /\ weatherData = <<>> /\ intervals = <<>>
    /\ error \notin {NoError, PremiumRecovery}

\* ---------------------------------------------------------------- C16, C17
\* C16: called with the credential or the query missing or empty, the relay
\* answers 400 with a failure body and calls the upstream not at all.
C16_RelayValidates ==
    (/\ relay.res # <<>>
     /\ \/ "access_key" \notin DOMAIN relay.req \/ relay.req.access_key = <<>>
        \/ "query" \notin DOMAIN relay.req \/ relay.req.query = <<>>) =>
        /\ relay.res[1].status = 400
        /\ relay.res[1].data.success = FALSE
        /\ relay.calls = <<>>

\* a request with a credential and an empty query was answered
C16_Witness ==
    /\ relay.res # <<>> /\ relay.calls = <<>>
    /\ Has(relay.req, "access_key") /\ relay.req.access_key # <<>>
    /\ Has(relay.req, "query") /\ relay.req.query = <<>>

\* C17: when the upstream answers a request the relay forwarded, the relay's
\* response has the upstream's status and the upstream's body.
C17_RelayMirrorsUpstream ==
    (relay.res # <<>> /\ relay.upstream # <<>> /\ relay.upstream[1].kind = "http") =>
        /\ relay.res[1].status = relay.upstream[1].status
        /\ relay.res[1].data = relay.upstream[1].data

\* C18: a retry timer is set only in a step in which an invocation settles
\* on an upstream answer whose body says success=false with a code of the
\* tier-restricted set; no other outcome and no other input sets one.
C18_RetryOnlyOnTierError ==
    [][/\ \A t \in Slots :
             (~RetryPending(t) /\ RetryPending(t)') =>
                 \E up \in UpstreamAnswers :
                     /\ IsFailureBody(up) /\ HasTierRestrictedCode(up)
                     /\ ReachesUpstream(t) /\ Answered(t, up)
       /\ \A t \in Slots, up \in UpstreamAnswers :
             ( /\ InFlight(t)
               /\ ~(IsFailureBody(up) /\ HasTierRestrictedCode(up) /\ ReachesUpstream(t))
               /\ Answered(t, up) ) => ~RetryPending(t)'
       /\ \A t \in Slots : RelayDown(t) => ~RetryPending(t)']_vars

\* the refresh timer's invocation got a tier error
C18_Witness ==
    \E t \in Slots :
        /\ RetryPending(t) /\ tasks[t].origin = "refresh"
        /\ autoRefresh /\ weatherData = <<>>

\* C19: an invocation that settles on anything but a successful upstream
\* answer leaves no report held.
C19_FailureClearsReport ==
    [][/\ \A t \in Slots, up \in UpstreamAnswers :
             ( /\ InFlight(t)
               /\ ~(IsSuccessAnswer(up) /\ ReachesUpstream(t))
               /\ Answered(t, up) ) => weatherData' = <<>>
       /\ \A t \in Slots : RelayDown(t) => weatherData' = <<>>]_vars

\* a report was obtained from an empty store, and a later failure that is
\* not a tier error cleared it
C19_Witness ==
    /\ weatherData = <<>> /\ recentSearches # <<>>
    /\ ~Has(localStorage, KeyItem)
    /\ error \notin {NoError, PremiumRecovery, LocationFailed}
    /\ \A t \in Slots : tasks[t].phase = "none"

\* C20: once every invocation has settled, the report and the error are
\* those of the one that settled last: a held report comes with the error
\* that invocation left, which is none.
C20_LastSettledWins ==
    ((\A t \in Slots : tasks[t].phase = "none") /\ weatherData # <<>>) =>
        error = NoError

\* C21: while no invocation is in flight, a held report and an error
\* message are never both present.
C21_NoReportWithError ==
    (\A t \in Slots : ~InFlight(t)) => ~(weatherData # <<>> /\ error # NoError)

\* C22: a pending retry stays pending until its timer fires, whatever the
\* caller does meanwhile, and when the retry's invocation settles the report
\* and the error are the ones it leaves: its report with no error, or its
\* error with no report.
C22_RetryOverwrites ==
    [][\A t \in Slots :
          /\ (RetryPending(t) /\ ~RetryFire(t)) => RetryPending(t)'
          /\ \A up \in UpstreamAnswers :
                (InFlight(t) /\ tasks[t].gen >= 1 /\ Answered(t, up)) =>
                    /\ weatherData' # <<>> => error' = NoError
                    /\ weatherData' = <<>> => error' # NoError]_vars

\* C23: a request is dispatched as HISTORICAL exactly when, at that moment,
\* historical mode is on and a date is set; it carries that date, hourly=1
\* and interval=3 exactly when it is HISTORICAL.
C23_HistoricalIffModeAndDate ==
    [][\A t \in Slots :
          (~InFlight(t) /\ tasks'[t].phase = "inflight") =>
              LET req == tasks'[t].request
                  hist == useHistorical /\ historicalDate # ""
              IN  /\ (RequestedOperation(req) = "historical") <=> hist
                  /\ (RequestedOperation(req) = "current") <=> ~hist
                  /\ CarriesHistoricalParams(req) <=> hist
                  /\ hist => /\ req.params.historical_date = historicalDate
                             /\ req.params.hourly = 1
                             /\ req.params.interval = 3]_vars

\* ------------------------------------------------------------ C24 .. C26
\* C24: what the relay forwards for the page's request is the request the
\* page would have sent on the DIRECT route for the same query, credential,
\* mode and date: same operation, same parameters, none more.
C24_RelayedEqualsDirect ==
    \A t \in Slots :
        (InFlight(t) /\ protocol = "https:" /\ ~RelayRejects(tasks[t].request.params)) =>
            RelayUpstreamRequest(tasks[t].request.params)
                = BuildRequest("http:", tasks[t].fetchWeather, tasks[t].searchCity)

\* a HISTORICAL request with a saved credential, on the RELAYED route
C24_Witness ==
    \E t \in Slots :
        /\ InFlight(t) /\ protocol = "https:"
        /\ tasks[t].request.params.access_key = << "k2" >>
        /\ Has(tasks[t].request.params, "historical_date")
        /\ tasks[t].request.params.query # <<>>

\* C25: the upstream operation an accepted relay request is forwarded to is
\* current or historical as the mode selector says, and current without a
\* selector; never another path.
C25_RelayCallsKnownOperation ==
    relay.calls # <<>> =>
        /\ relay.calls[1].url[1] = "http://api.weatherstack.com/"
        /\ relay.calls[1].url[2] \in {"current", "historical"}
        /\ ~Has(relay.req, "endpoint") => relay.calls[1].url[2] = "current"
        /\ (Has(relay.req, "endpoint") /\ relay.req.endpoint \in {"current", "historical"})
              => relay.calls[1].url[2] = relay.req.endpoint

\* C26: when the relay's call reaches no upstream, the relay answers 500
\* with success=false and the failure's description, after one call.
C26_RelayReportsFailure ==
    (relay.res # <<>> /\ relay.upstream = << [kind |-> "unreachable"] >>) =>
        /\ relay.res[1].status = 500
        /\ relay.res[1].data.success = FALSE
        /\ relay.res[1].data.error.info
              = <<"Proxy Error: ">> \o AxiosGet([kind |-> "unreachable"]).message
        /\ Len(relay.calls) = 1

C26_Witness ==
    /\ relay.res # <<>> /\ relay.upstream = << [kind |-> "unreachable"] >>
    /\ Has(relay.req, "endpoint") /\ relay.req.endpoint = "historical"
    /\ Has(relay.req, "historical_date")

\* ------------------------------------------------------------ C27 .. C29
\* C27: a request that reaches nothing ends in a terminal error, the
\* relay-misconfiguration message on the RELAYED route and the
\* scheme-mismatch message on the DIRECT route, with no report held and no
\* retry timer set.
C27_UnreachableByRoute ==
    [][\A t \in Slots :
          /\ RelayDown(t) =>
                /\ error' = ProxyUnavailable
                /\ weatherData' = <<>> /\ tasks'[t].phase = "none"
          /\ ( /\ InFlight(t) /\ protocol = "http:"
               /\ Answered(t, [kind |-> "unreachable"]) ) =>
                /\ error' = ProtocolError
                /\ weatherData' = <<>> /\ tasks'[t].phase = "none"]_vars

\* auto-refresh was enabled on a report; then a request found nothing to
\* answer it
C27_Witness ==
    /\ error \in {ProxyUnavailable, ProtocolError}
    /\ autoRefresh /\ weatherData = <<>>
    /\ \A t \in Slots : tasks[t].phase = "none"

\* the message a failure body supplies: its info, else its type, else the
\* generic one
BodyMessage(data) ==
    IF "error" \in DOMAIN data /\ "info" \in DOMAIN data.error /\ data.error.info # <<>>
    THEN data.error.info
    ELSE IF "error" \in DOMAIN data /\ "type" \in DOMAIN data.error /\ data.error.type # <<>>
    THEN data.error.type
    ELSE <<"City not found or API error.">>

\* C28: a body with success=false and no code of the tier-restricted set
\* ends in a terminal error that shows the body's message, or the generic
\* one when the body has none, also when it has no error object.
C28_TerminalMessageFromBody ==
    [][\A t \in Slots, up \in UpstreamAnswers :
          ( /\ IsFailureBody(up) /\ ~HasTierRestrictedCode(up)
            /\ ReachesUpstream(t) /\ Answered(t, up) ) =>
              /\ error' = <<"STATION_RESPONSE: ">> \o BodyMessage(up.data)
              /\ tasks'[t].phase = "none"]_vars

\* C29: the active refresh timer asks for the location name of the held
\* report with the fetchWeather of the current render, so the request its
\* callback dispatches carries the name, the credential, the mode and the
\* date of that moment.
C29_RefreshUsesCurrentState ==
    [][/\ intervals' # <<>> =>
             /\ intervals'[1].query = weatherData'[1].location.name
             /\ intervals'[1].fetchWeather = CurrentClosure'
       /\ \A i \in 1..Len(intervals) :
             (HasFreeSlot /\ RefreshTick(i)) =>
                 /\ tasks'[FreeSlot].phase = "inflight"
                 /\ tasks'[FreeSlot].request =
                       BuildRequest(protocol, CurrentClosure,
                                    SearchCity(weatherData[1].location.name))]_vars

\* a refresh dispatched with the credential saved after the report came
C29_Witness ==
    \E t \in Slots :
        /\ InFlight(t) /\ tasks[t].origin = "refresh" /\ tasks[t].gen = 0
        /\ tasks[t].request.params.access_key = << "k2" >>

\* ------------------------------------------------------------------- C30
\* C30: unmounting the component clears the refresh timer, no refresh is
\* dispatched afterwards, and nothing else dispatches a request after the
\* unmounting either: no invocation comes to be in flight that was not.
C30_NothingRunsAfterDiscard ==
    [][/\ ~mounted' => intervals' = <<>>
       /\ ~mounted =>
             \A t \in Slots : tasks'[t].phase = "inflight" => tasks[t].phase = "inflight"]_vars

\* ------------------------------------------------------------------- C31
\* the query getUserLocation builds from a position
PositionQuery(pos) == pos.latitude \o <<",">> \o pos.longitude

\* C31: a press of the locate button that the provider refuses, or that
\* finds no provider, sets the location notice as the error and dispatches
\* no request; one that the provider resolves dispatches the pipeline with
\* the query "<lat>,<lon>".
C31_LocateOutcomes ==
    [][/\ (GeoDenied \/ GeoUnavailable) =>
             /\ error' = LocationFailed
             /\ \A t \in Slots : tasks'[t].phase = "inflight" => tasks[t].phase = "inflight"
       /\ \A pos \in Coordinates :
             (HasFreeSlot /\ GeoLocated(pos)) =>
                 /\ tasks'[FreeSlot].phase = "inflight"
                 /\ tasks'[FreeSlot].request.params.query = PositionQuery(pos)]_vars

\* ------------------------------------------------------------------- C32
\* C32: in every reachable state the list persisted under skycast_recent
\* is the list held in recentSearches, an absent key standing for the empty
\* list.
C32_PersistedEqualsHeld == StoredRecent = recentSearches

\* two names were added to an empty cache and a further request is under way
C32_Witness ==
    /\ Len(recentSearches) = 2 /\ loading
    /\ StoredRecentText = JSONStringify(recentSearches)

\* ------------------------------------------------------------------- C33
\* C33: while no credential is stored the built-in one is held, and while
\* no cache is stored the empty list is held; every request that is
\* dispatched carries the held credential without its surrounding
\* whitespace, and that credential is not empty.
C33_CredentialOfEveryRequest ==
    /\ [](/\ ~Has(localStorage, KeyItem) => apiKey = DEFAULT_API_KEY
          /\ ~Has(localStorage, RecentItem) => recentSearches = <<>>)
    /\ [][\A t \in Slots :
             (tasks[t].phase # "inflight" /\ tasks'[t].phase = "inflight") =>
                 /\ tasks'[t].request.params.access_key = Trim(apiKey)
                 /\ tasks'[t].request.params.access_key # <<>>]_vars

\* ------------------------------------------------------------------- C34
\* C34: a Success is applied to the cache as it stands when it settles:
\* the cache becomes the resolved name followed by the other entries held
\* at that moment, cut to five, whatever other invocations ran alongside.
C34_SuccessAppliedToCurrentCache ==
    [][\A t \in Slots, up \in CoreAnswers :
          ( /\ IsSuccessAnswer(up) /\ InFlight(t) /\ ReachesUpstream(t)
            /\ Answered(t, up) ) =>
              recentSearches' = MovedToFront(up.data.location.name, recentSearches)]_vars

\* C35: loading is TRUE exactly while at least one invocation is in flight.
C35_LoadingIffInFlight ==
    loading <=> \E t \in Slots : InFlight(t)

\* ------------------------------------------------------------------- C36
\* a 2xx answer whose body neither says success=false nor has a location
IsMalformedBody(up) ==
    /\ up.kind = "http" /\ up.status = 200
    /\ ~(Has(up.data, "success") /\ up.data.success = FALSE)
    /\ ~Has(up.data, "location")

\* C36: an invocation answered with a body that is neither an explicit
\* failure nor a payload with a location settles with a terminal error:
\* no report is held, the cache is as it was, in memory and persisted, and
\* no retry is set.
C36_MalformedBodyIsTerminal ==
    [][\A t \in Slots, up \in UpstreamAnswers :
          ( /\ IsMalformedBody(up) /\ ReachesUpstream(t) /\ Answered(t, up) ) =>
              /\ error' # NoError /\ error' # PremiumRecovery
              /\ weatherData' = <<>>
              /\ recentSearches' = recentSearches
              /\ StoredRecentText' = StoredRecentText
              /\ tasks'[t].phase = "none"
              /\ loading' = FALSE]_vars

\* a report was held and auto-refresh was on when the malformed body came
C36_Witness ==
    /\ error = <<"INTERFACE_ERROR: ">> \o TypeErrorOf("name").message
    /\ weatherData = <<>> /\ autoRefresh /\ recentSearches # <<>>
    /\ \A t \in Slots : tasks[t].phase = "none"

====
